---- MODULE Spec2Model ----
(***************************************************************************)
(* Model of the code under test in the Jennly666/Testing harness:          *)
(*   - the control-flow graph of UserRepository.update() as written in     *)
(*     flow_graph_visualization.py, and update() executed along it against *)
(*     the mocked collaborators of tests/test_white_box.py;                *)
(*   - validate_username() of tests/test_simple_validation.py;             *)
(*   - RoleService over the mocked repository of                           *)
(*     tests/test_role_management.py;                                      *)
(*   - hash_password(), validate_password() and to_camel_case() as         *)
(*     tests/test_utils_comprehensive.py uses them;                        *)
(*   - the scan of the project and the report of final_testing_summary.py. *)
(***************************************************************************)
EXTENDS Integers, Sequences, FiniteSets, TLC

VARIABLES
    pc,                  \* node of the flow graph update() is at; 0 before the call
    path,                \* the nodes update() has executed, in order
    id,                  \* argument id of update(id, user_update, session)
    user_update,         \* argument user_update: the fields that were set, with values
    get_by_id_result,    \* what the get_by_id mock returns
    get_by_email_result, \* what the get_by_email mock returns
    user,                \* local user
    update_data,         \* local update_data
    remaining,           \* keys the for loop has not yet yielded
    existing_user,       \* local existing_user
    get_by_email_calls,  \* call count of the get_by_email mock
    commits,             \* call count of session.commit
    refreshes,           \* call count of session.refresh
    outcome,             \* "running", "404", "400" or "returned"
    username,            \* argument of validate_username
    result,              \* its return value, None before the call
    service_call,        \* the RoleService method under test, with its arguments
    mock_config,         \* return_value and side_effect of each mocked repository method
    mock_calls,          \* the calls the mocked repository has recorded, in order
    response,            \* what the service call returned or raised, None before it ends
    password,            \* the password that is hashed
    attempt,             \* the password that is validated against a hash
    hashes,              \* the results of hash_password so far, in order
    checked,             \* the last validate_password call and its result, None before it
    input_str,           \* argument of to_camel_case
    camel,               \* what the call returned, None before it
    project_files,       \* the files rglob("*.py") yields, as relative paths, in scan order
    components,          \* components of section 1 of the report, None before it
    strategy,            \* strategy of section 2, None before it
    metrics,             \* metrics of section 3, None before it
    report,              \* the lines printed so far
    section              \* the section of the report printed last, 0 before the first

updateVars == <<pc, path, id, user_update, get_by_id_result, get_by_email_result,
                user, update_data, remaining, existing_user, get_by_email_calls,
                commits, refreshes, outcome>>
validateVars == <<username, result>>
roleVars == <<service_call, mock_config, mock_calls, response>>
passwordVars == <<password, attempt, hashes, checked>>
camelVars == <<input_str, camel>>
summaryVars == <<project_files, components, strategy, metrics, report, section>>
vars == <<updateVars, validateVars, roleVars, passwordVars, camelVars, summaryVars>>

(***************************************************************************)
(* Bounds of the model.                                                    *)
(***************************************************************************)
MaxId == 2          \* user ids 1..MaxId
NumValues == 1      \* new field values 1..NumValues; 0 is the value before the update
MaxHead == 2        \* free characters at the start of a username
MaxPad == 31        \* repetitions of one character after them
MaxPwLen == 2       \* characters of a password
NumSalts == 3       \* salts 1..NumSalts
MaxHashes == 2      \* calls of hash_password in one test
MaxCamelLen == 4    \* characters of an argument of to_camel_case
MaxFiles == 5       \* files the scan of the project finds

(***************************************************************************)
(* flow_graph_visualization.py: the flow graph of update().                *)
(***************************************************************************)
\* nodes: the keys of the dictionary
nodes == 1..14

\* a slip in the edge list: the edge that skips the email lookup is left out
edges_without_skip ==
    << <<1, 2, "">>,
       <<2, 3, "user is None">>,
       <<2, 4, "user exists">>,
       <<4, 5, "">>,
       <<5, 6, "email in data">>,
       <<6, 7, "">>,
       <<7, 8, "email taken">>,
       <<7, 9, "email ok">>,
       <<9, 10, "has items">>,
       <<10, 9, "loop back">>,
       <<9, 11, "loop end">>,
       <<11, 12, "">>,
       <<12, 13, "">>,
       <<13, 14, "">> >>

\* edges: (start, end, label), in the order of the list
edges ==
    << <<1, 2, "">>,
       <<2, 3, "user is None">>,
       <<2, 4, "user exists">>,
       <<4, 5, "">>,
       <<5, 6, "email in data">>,
       <<5, 9, "no email">>,
       <<6, 7, "">>,
       <<7, 8, "email taken">>,
       <<7, 9, "email ok">>,
       <<9, 10, "has items">>,
       <<10, 9, "loop back">>,
       <<9, 11, "loop end">>,
       <<11, 12, "">>,
       <<12, 13, "">>,
       <<13, 14, "">> >>

\* the colouring of the nodes
exception_nodes == {3, 8}
predicate_nodes == {2, 5, 7, 9}

\* complexity_text: P, and the basis of independent paths
P == 1
basis_paths ==
    << <<1, 2, 3>>,
       <<1, 2, 4, 5, 9, 11, 12, 13, 14>>,
       <<1, 2, 4, 5, 6, 7, 8>>,
       <<1, 2, 4, 5, 6, 7, 9, 10, 11, 12, 13, 14>>,
       <<1, 2, 4, 5, 6, 7, 9, 11, 12, 13, 14>> >>

\* create_complexity_analysis: the value drawn for each of the three methods
\* 'M = E - N + 2P', 'predicates + 1', 'regions of the graph'
values == <<5, 5, 5>>

\* generate_test_cases_summary: "complexity": 5
summary_complexity == 5

Edge(a, b) == \E i \in DOMAIN edges : edges[i][1] = a /\ edges[i][2] = b
Successors(n) == {m \in nodes : Edge(n, m)}
TerminalNodes == {n \in nodes : Successors(n) = {}}
BranchingNodes == {n \in nodes : Cardinality(Successors(n)) > 1}
IsWalk(p) == \A i \in 1..(Len(p) - 1) : Edge(p[i], p[i + 1])

\* M = E - N + 2P on the edge and node lists
CyclomaticByFormula == Len(edges) - Cardinality(nodes) + 2 * P
\* M = predicate nodes + 1
CyclomaticByPredicates == Cardinality(predicate_nodes) + 1

(***************************************************************************)
(* The objects of tests/test_white_box.py.                                 *)
(***************************************************************************)
None == [none |-> TRUE]
Ids == 1..MaxId
Fields == {"user_name", "email", "phone", "bio"}
Values == 0..NumValues
NoData == [k \in {} |-> 0]

\* sample_user, with the id asked for
SampleUser(i) ==
    [id |-> i, user_name |-> 0, email |-> 0, phone |-> 0, bio |-> 0, updated_at |-> 0]

\* UserUpdate(...): the fields given to the constructor
UserUpdates == UNION {[S -> Values] : S \in SUBSET Fields}

(***************************************************************************)
(* update(), one action per node of the flow graph.                        *)
(***************************************************************************)
\* a slip in node 7: existing_user.id == id where != is meant
Cond_InvertedIdTest(label) ==
    CASE label = "user is None"  -> user = None
      [] label = "user exists"   -> user # None
      [] label = "email in data" -> "email" \in DOMAIN update_data
      [] label = "no email"      -> "email" \notin DOMAIN update_data
      [] label = "email taken"   -> existing_user # None /\ existing_user.id = id
      [] label = "email ok"      -> ~(existing_user # None /\ existing_user.id = id)
      [] label = "has items"     -> remaining # {}
      [] label = "loop end"      -> remaining = {}
      [] OTHER                   -> TRUE

\* the condition an edge is labelled with
Cond(label) ==
    CASE label = "user is None"  -> user = None
      [] label = "user exists"   -> user # None
      [] label = "email in data" -> "email" \in DOMAIN update_data
      [] label = "no email"      -> "email" \notin DOMAIN update_data
      [] label = "email taken"   -> existing_user # None /\ existing_user.id # id
      [] label = "email ok"      -> ~(existing_user # None /\ existing_user.id # id)
      [] label = "has items"     -> remaining # {}
      [] label = "loop end"      -> remaining = {}
      [] OTHER                   -> TRUE

\* control moves to node m along an edge whose condition holds
Enter(m) ==
    /\ \E i \in DOMAIN edges :
          edges[i][1] = pc /\ edges[i][2] = m /\ Cond(edges[i][3])
    /\ pc' = m
    /\ path' = Append(path, m)

\* 1. user = get_by_id()
GetById ==
    /\ pc = 0
    /\ pc' = 1
    /\ path' = <<1>>
    /\ user' = get_by_id_result
    /\ UNCHANGED <<id, user_update, get_by_id_result, get_by_email_result,
                   update_data, remaining, existing_user, get_by_email_calls,
                   commits, refreshes, outcome, validateVars, roleVars, passwordVars,
                   camelVars, summaryVars>>

\* 2. if user is None
IfUserIsNone ==
    /\ Enter(2)
    /\ UNCHANGED <<id, user_update, get_by_id_result, get_by_email_result, user,
                   update_data, remaining, existing_user, get_by_email_calls,
                   commits, refreshes, outcome, validateVars, roleVars, passwordVars,
                   camelVars, summaryVars>>

\* a slip in node 3: the status of the other exception
RaiseNotFound_WrongStatus ==
    /\ Enter(3)
    /\ outcome' = "400"
    /\ UNCHANGED <<id, user_update, get_by_id_result, get_by_email_result, user,
                   update_data, remaining, existing_user, get_by_email_calls,
                   commits, refreshes, validateVars, roleVars, passwordVars,
                   camelVars, summaryVars>>

\* 3. raise HTTPException (404)
RaiseNotFound ==
    /\ Enter(3)
    /\ outcome' = "404"
    /\ UNCHANGED <<id, user_update, get_by_id_result, get_by_email_result, user,
                   update_data, remaining, existing_user, get_by_email_calls,
                   commits, refreshes, validateVars, roleVars, passwordVars,
                   camelVars, summaryVars>>

\* a slip in node 4: the dump keeps the fields that were not set, as -1
ModelDump_WithUnset ==
    /\ Enter(4)
    /\ update_data' =
          [f \in Fields |-> IF f \in DOMAIN user_update THEN user_update[f] ELSE -1]
    /\ UNCHANGED <<id, user_update, get_by_id_result, get_by_email_result, user,
                   remaining, existing_user, get_by_email_calls,
                   commits, refreshes, outcome, validateVars, roleVars, passwordVars,
                   camelVars, summaryVars>>

\* 4. update_data = model_dump()
ModelDump ==
    /\ Enter(4)
    /\ update_data' = user_update
    /\ UNCHANGED <<id, user_update, get_by_id_result, get_by_email_result, user,
                   remaining, existing_user, get_by_email_calls,
                   commits, refreshes, outcome, validateVars, roleVars, passwordVars,
                   camelVars, summaryVars>>

\* 5. if 'email' in update_data
IfEmailInData ==
    /\ Enter(5)
    /\ UNCHANGED <<id, user_update, get_by_id_result, get_by_email_result, user,
                   update_data, remaining, existing_user, get_by_email_calls,
                   commits, refreshes, outcome, validateVars, roleVars, passwordVars,
                   camelVars, summaryVars>>

\* 6. existing_user = get_by_email()
GetByEmail ==
    /\ Enter(6)
    /\ existing_user' = get_by_email_result
    /\ get_by_email_calls' = get_by_email_calls + 1
    /\ UNCHANGED <<id, user_update, get_by_id_result, get_by_email_result, user,
                   update_data, remaining, commits, refreshes, outcome, validateVars, roleVars, passwordVars,
                   camelVars, summaryVars>>

\* 7. if existing_user and existing_user.id != id
IfEmailTaken ==
    /\ Enter(7)
    /\ UNCHANGED <<id, user_update, get_by_id_result, get_by_email_result, user,
                   update_data, remaining, existing_user, get_by_email_calls,
                   commits, refreshes, outcome, validateVars, roleVars, passwordVars,
                   camelVars, summaryVars>>

\* 8. raise HTTPException (400)
RaiseEmailTaken ==
    /\ Enter(8)
    /\ outcome' = "400"
    /\ UNCHANGED <<id, user_update, get_by_id_result, get_by_email_result, user,
                   update_data, remaining, existing_user, get_by_email_calls,
                   commits, refreshes, validateVars, roleVars, passwordVars,
                   camelVars, summaryVars>>

\* a slip in node 9: after the email lookup the loop finds nothing to iterate
ForItems_EmptyAfterLookup ==
    /\ Enter(9)
    /\ remaining' = IF pc = 10 THEN remaining
                    ELSE IF pc = 7 THEN {}
                    ELSE DOMAIN update_data
    /\ UNCHANGED <<id, user_update, get_by_id_result, get_by_email_result, user,
                   update_data, existing_user, get_by_email_calls,
                   commits, refreshes, outcome, validateVars, roleVars, passwordVars,
                   camelVars, summaryVars>>

\* 9. for key, value in update_data.items(): the iterator is made when the loop
\* is entered from above and advanced when it is entered from its body
ForItems ==
    /\ Enter(9)
    /\ remaining' = IF pc = 10 THEN remaining ELSE DOMAIN update_data
    /\ UNCHANGED <<id, user_update, get_by_id_result, get_by_email_result, user,
                   update_data, existing_user, get_by_email_calls,
                   commits, refreshes, outcome, validateVars, roleVars, passwordVars,
                   camelVars, summaryVars>>

\* a slip in node 10: the email is looked up but not assigned
SetAttr_SkipsEmail ==
    /\ Enter(10)
    /\ \E key \in remaining :
          /\ user' = IF key = "email" THEN user
                     ELSE [user EXCEPT ![key] = update_data[key]]
          /\ remaining' = remaining \ {key}
    /\ UNCHANGED <<id, user_update, get_by_id_result, get_by_email_result,
                   update_data, existing_user, get_by_email_calls,
                   commits, refreshes, outcome, validateVars, roleVars, passwordVars,
                   camelVars, summaryVars>>

\* a slip in node 10: a commit inside the loop body
SetAttr_CommitsEachField ==
    /\ Enter(10)
    /\ \E key \in remaining :
          /\ user' = [user EXCEPT ![key] = update_data[key]]
          /\ remaining' = remaining \ {key}
    /\ commits' = commits + 1
    /\ UNCHANGED <<id, user_update, get_by_id_result, get_by_email_result,
                   update_data, existing_user, get_by_email_calls,
                   refreshes, outcome, validateVars, roleVars, passwordVars,
                   camelVars, summaryVars>>

\* a slip in node 10: the iterator is exhausted after the first field
SetAttr_DropsAllKeys ==
    /\ Enter(10)
    /\ \E key \in remaining :
          /\ user' = [user EXCEPT ![key] = update_data[key]]
          /\ remaining' = {}
    /\ UNCHANGED <<id, user_update, get_by_id_result, get_by_email_result,
                   update_data, existing_user, get_by_email_calls,
                   commits, refreshes, outcome, validateVars, roleVars, passwordVars,
                   camelVars, summaryVars>>

\* 10. setattr(user, key, value)
SetAttr ==
    /\ Enter(10)
    /\ \E key \in remaining :
          /\ user' = [user EXCEPT ![key] = update_data[key]]
          /\ remaining' = remaining \ {key}
    /\ UNCHANGED <<id, user_update, get_by_id_result, get_by_email_result,
                   update_data, existing_user, get_by_email_calls,
                   commits, refreshes, outcome, validateVars, roleVars, passwordVars,
                   camelVars, summaryVars>>

\* 11. user.updated_at = datetime.now()
SetUpdatedAt ==
    /\ Enter(11)
    /\ user' = [user EXCEPT !.updated_at = 1]
    /\ UNCHANGED <<id, user_update, get_by_id_result, get_by_email_result,
                   update_data, remaining, existing_user, get_by_email_calls,
                   commits, refreshes, outcome, validateVars, roleVars, passwordVars,
                   camelVars, summaryVars>>

\* 12. session.commit()
Commit ==
    /\ Enter(12)
    /\ commits' = commits + 1
    /\ UNCHANGED <<id, user_update, get_by_id_result, get_by_email_result, user,
                   update_data, remaining, existing_user, get_by_email_calls,
                   refreshes, outcome, validateVars, roleVars, passwordVars,
                   camelVars, summaryVars>>

\* 13. session.refresh()
Refresh ==
    /\ Enter(13)
    /\ refreshes' = refreshes + 1
    /\ UNCHANGED <<id, user_update, get_by_id_result, get_by_email_result, user,
                   update_data, remaining, existing_user, get_by_email_calls,
                   commits, outcome, validateVars, roleVars, passwordVars,
                   camelVars, summaryVars>>

\* 14. return user
ReturnUser ==
    /\ Enter(14)
    /\ outcome' = "returned"
    /\ UNCHANGED <<id, user_update, get_by_id_result, get_by_email_result, user,
                   update_data, remaining, existing_user, get_by_email_calls,
                   commits, refreshes, validateVars, roleVars, passwordVars,
                   camelVars, summaryVars>>

\* the parts of the state a test of update() does not use
ValidateIdle == username = <<>> /\ result = None
RoleIdle ==
    /\ service_call = None
    /\ mock_config = None
    /\ mock_calls = <<>>
    /\ response = None
PasswordIdle ==
    /\ password = <<>>
    /\ attempt = <<>>
    /\ hashes = <<>>
    /\ checked = None
CamelIdle == input_str = <<>> /\ camel = None
SummaryIdle ==
    /\ project_files = <<>>
    /\ components = None
    /\ strategy = None
    /\ metrics = None
    /\ report = <<>>
    /\ section = 0

\* the fixtures of a test: the arguments and what the mocks return
Init ==
    /\ pc = 0
    /\ path = <<>>
    /\ id \in Ids
    /\ user_update \in UserUpdates
    /\ get_by_id_result \in {None, SampleUser(id)}
    /\ get_by_email_result \in {None} \cup {SampleUser(i) : i \in Ids}
    /\ user = None
    /\ update_data = NoData
    /\ remaining = {}
    /\ existing_user = None
    /\ get_by_email_calls = 0
    /\ commits = 0
    /\ refreshes = 0
    /\ outcome = "running"
    /\ ValidateIdle
    /\ RoleIdle
    /\ PasswordIdle
    /\ CamelIdle
    /\ SummaryIdle

Next ==
    \/ GetById
    \/ IfUserIsNone
    \/ RaiseNotFound
    \/ ModelDump
    \/ IfEmailInData
    \/ GetByEmail
    \/ IfEmailTaken
    \/ RaiseEmailTaken
    \/ ForItems
    \/ SetAttr
    \/ SetUpdatedAt
    \/ Commit
    \/ Refresh
    \/ ReturnUser

Spec == Init /\ [][Next]_vars

\* update() is awaited to its end: the coroutine is run until it returns or raises
SpecFair == Spec /\ WF_vars(Next)

(***************************************************************************)
(* tests/test_white_box.py: the five path tests.                           *)
(***************************************************************************)
\* the path each test's docstring names
docstring_paths ==
    << <<1, 2, 3>>,
       <<1, 2, 4, 5, 11, 12, 13, 14>>,
       <<1, 2, 4, 5, 6, 7, 8>>,
       <<1, 2, 4, 5, 6, 7, 9, 10, 11, 12, 13, 14>>,
       <<1, 2, 4, 5, 6, 7, 9, 11, 12, 13, 14>> >>

\* the user_update fixture: UserUpdate(user_name=..., email=...)
user_update_fixture == DOMAIN user_update = {"user_name", "email"}

\* what each test arranges
test_path_1_user_not_found ==
    /\ get_by_id_result = None
    /\ user_update_fixture
test_path_2_update_without_email ==
    /\ id = 1
    /\ get_by_id_result = SampleUser(1)
    /\ DOMAIN user_update = {"user_name"}
test_path_3_email_already_taken ==
    /\ id = 1
    /\ get_by_id_result = SampleUser(1)
    /\ get_by_email_result = SampleUser(2)
    /\ user_update_fixture
test_path_4_update_with_email_success ==
    /\ id = 1
    /\ get_by_id_result = SampleUser(1)
    /\ get_by_email_result = SampleUser(1)
    /\ user_update_fixture
test_path_5_update_with_email_no_existing ==
    /\ id = 1
    /\ get_by_id_result = SampleUser(1)
    /\ get_by_email_result = None
    /\ user_update_fixture
path_tests ==
    <<test_path_1_user_not_found,
      test_path_2_update_without_email,
      test_path_3_email_already_taken,
      test_path_4_update_with_email_success,
      test_path_5_update_with_email_no_existing>>

(***************************************************************************)
(* tests/test_simple_validation.py: validate_username().                   *)
(***************************************************************************)
Letters == {"a"}
Digits == {"1"}
Whitespace == {" "}
Specials == {"@"}
Chars == Letters \cup Digits \cup Whitespace \cup Specials

MinLen == 2
MaxLen == 30

ErrEmpty == "cannot be empty"
ErrShort == "minimum 2 characters"
ErrLong == "must not exceed 30 characters"
ErrDigits == "cannot consist only of digits"
ErrAlnum == "only letters and digits"

\* str.strip(): the string without its leading and trailing whitespace
RECURSIVE lstrip(_)
lstrip(s) == IF s # <<>> /\ Head(s) \in Whitespace THEN lstrip(Tail(s)) ELSE s
RECURSIVE rstrip(_)
rstrip(s) ==
    IF s # <<>> /\ s[Len(s)] \in Whitespace THEN rstrip(SubSeq(s, 1, Len(s) - 1)) ELSE s
strip(s) == rstrip(lstrip(s))

\* str.isdigit(), str.isalnum(): false of the empty string
isdigit(s) == s # <<>> /\ \A i \in DOMAIN s : s[i] \in Digits
isalnum(s) == s # <<>> /\ \A i \in DOMAIN s : s[i] \in Letters \cup Digits

\* a slip in the empty check: the strip() test is left out
is_empty_WithoutStrip(u) == Len(u) = 0

\* if not username or username.strip() == ""
is_empty(u) == Len(u) = 0 \/ strip(u) = <<>>

\* a slip in the length check: >= 30 where > 30 is meant
length_check_ExclusiveMax(u) ==
    IF Len(u) < MinLen THEN <<ErrShort>>
    ELSE IF Len(u) >= MaxLen THEN <<ErrLong>>
    ELSE <<>>

\* if len(username) < 2 ... elif len(username) > 30 ...
length_check(u) ==
    IF Len(u) < MinLen THEN <<ErrShort>>
    ELSE IF Len(u) > MaxLen THEN <<ErrLong>>
    ELSE <<>>

\* a slip in the digits check: the check is left out
digits_check_Missing(u) == <<>>

\* a slip in the digits check: elif, so that it is skipped after a length error
digits_check_OnlyWhenLengthFits(u) ==
    IF Len(u) >= MinLen /\ Len(u) <= MaxLen /\ isdigit(u) THEN <<ErrDigits>> ELSE <<>>

\* if username.isdigit()
digits_check(u) == IF isdigit(u) THEN <<ErrDigits>> ELSE <<>>

\* a slip in the character check: isalnum() of the stripped username
alnum_check_OfStripped(u) == IF ~isalnum(strip(u)) THEN <<ErrAlnum>> ELSE <<>>

\* if not username.isalnum()
alnum_check(u) == IF ~isalnum(u) THEN <<ErrAlnum>> ELSE <<>>

validate_username(u) ==
    IF is_empty(u)
    THEN [valid |-> FALSE, errors |-> <<ErrEmpty>>]
    ELSE LET errors == length_check(u) \o digits_check(u) \o alnum_check(u)
         IN  [valid |-> Len(errors) = 0, errors |-> errors]

\* the usernames tried: up to MaxHead free characters, then one character
\* repeated up to MaxPad times
Repeat(c, k) == [i \in 1..k |-> c]
Usernames ==
    {h \o Repeat(c, k) :
        h \in UNION {[1..n -> Chars] : n \in 0..MaxHead},
        c \in Chars,
        k \in 0..MaxPad}

CallValidateUsername ==
    /\ result = None
    /\ result' = validate_username(username)
    /\ UNCHANGED <<username, updateVars, roleVars, passwordVars,
                   camelVars, summaryVars>>

\* update() is not called
UpdateIdle ==
    /\ pc = 0
    /\ path = <<>>
    /\ id = 1
    /\ user_update = NoData
    /\ get_by_id_result = None
    /\ get_by_email_result = None
    /\ user = None
    /\ update_data = NoData
    /\ remaining = {}
    /\ existing_user = None
    /\ get_by_email_calls = 0
    /\ commits = 0
    /\ refreshes = 0
    /\ outcome = "running"

InitValidate ==
    /\ UpdateIdle
    /\ username \in Usernames
    /\ result = None
    /\ RoleIdle
    /\ PasswordIdle
    /\ CamelIdle
    /\ SummaryIdle

NextValidate == CallValidateUsername

SpecValidate == InitValidate /\ [][NextValidate]_vars

(***************************************************************************)
(* tests/test_role_management.py: RoleService over a mocked RoleRepository.*)
(***************************************************************************)
RoleNames == {"MODERATOR", "USER"}
Sessions == Ids

\* created_role, assigned_role
Role(i, name) == [id |-> i, role_name |-> name]
\* updated_user
RoleUser(i, r) == [id |-> i, user_name |-> "testuser", role_id |-> r]
\* what a mock returns when no return_value was arranged
MagicMock == [id |-> 0, role_name |-> "MagicMock", user_name |-> "MagicMock", role_id |-> 0]

HTTPException(status) == [exception |-> "HTTPException", status_code |-> status]
SQLAlchemyError == [exception |-> "SQLAlchemyError", status_code |-> 0]

\* the arrangements of the mocked repository: return_value, and side_effect or None
MockConfigs ==
    [create :
        [return_value : {Role(1, n) : n \in RoleNames},
         side_effect : {None, HTTPException(400)}],
     set_role :
        [return_value : {RoleUser(u, r) : u \in Ids, r \in Ids},
         side_effect : {None, HTTPException(404)}],
     get_by_id :
        [return_value : {None} \cup {Role(i, "MODERATOR") : i \in Ids},
         side_effect : {None, SQLAlchemyError}]]

\* the service calls of the tests
ServiceCalls ==
    {[method |-> "create_role", role_create |-> n, session |-> s] :
        n \in RoleNames, s \in Sessions}
    \cup
    {[method |-> "set_user_role", user_id |-> u, role_id |-> r, session |-> s] :
        u \in Ids, r \in Ids, s \in Sessions}
    \cup
    {[method |-> "get_role_by_id", role_id |-> r, session |-> s] :
        r \in Ids, s \in Sessions}

\* a slip in the arrangement: return_value is not set, the call returns a MagicMock
MockOutcome_Unarranged(method) ==
    IF mock_config[method].side_effect # None
    THEN [raised |-> TRUE, value |-> mock_config[method].side_effect]
    ELSE [raised |-> FALSE, value |-> MagicMock]

\* a slip in the arrangement: side_effect is not set, the call returns return_value
MockOutcome_NoSideEffect(method) ==
    [raised |-> FALSE, value |-> mock_config[method].return_value]

\* AsyncMock: a call raises side_effect when one is set and returns return_value
\* otherwise
MockOutcome(method) ==
    IF mock_config[method].side_effect # None
    THEN [raised |-> TRUE, value |-> mock_config[method].side_effect]
    ELSE [raised |-> FALSE, value |-> mock_config[method].return_value]

\* AsyncMock: the call is recorded with its arguments
MockRecord(calls, method, args) == Append(calls, [method |-> method, args |-> args])

\* what a service call ends with
JSONResponse(status, message, name) ==
    [kind |-> "JSONResponse", status_code |-> status,
     body |-> [message |-> message, name |-> name]]
Raised(e) == [kind |-> "raised", exception |-> e]
Returned(v) == [kind |-> "returned", value |-> v]

\* RoleService.create_role(role_create, session)
CreateRole ==
    /\ response = None
    /\ service_call # None
    /\ service_call.method = "create_role"
    /\ LET created == MockOutcome("create")
       IN  /\ mock_calls' = MockRecord(mock_calls, "create",
                                       <<service_call.role_create, service_call.session>>)
           /\ response' = IF created.raised
                          THEN Raised(created.value)
                          ELSE JSONResponse(201, "role created", created.value.role_name)
    /\ UNCHANGED <<service_call, mock_config, updateVars, validateVars, passwordVars,
                   camelVars, summaryVars>>

\* RoleService.set_user_role(user_id, role_id, session); what it does when
\* get_by_id raises or returns None is not fixed by the tests and left open
SetUserRole ==
    /\ response = None
    /\ service_call # None
    /\ service_call.method = "set_user_role"
    /\ LET updated == MockOutcome("set_role")
           role == MockOutcome("get_by_id")
           after_set_role ==
               MockRecord(mock_calls, "set_role",
                          <<service_call.user_id, service_call.role_id, service_call.session>>)
           ok == JSONResponse(200, "user role", updated.value.user_name)
       IN  IF updated.raised
           THEN /\ mock_calls' = after_set_role
                /\ response' = Raised(updated.value)
           ELSE /\ mock_calls' = MockRecord(after_set_role, "get_by_id",
                                            <<service_call.role_id, service_call.session>>)
                /\ response' \in
                      IF role.raised
                      THEN {Raised(role.value), Raised(HTTPException(400))}
                      ELSE IF role.value = None
                      THEN {Raised(HTTPException(404)), ok}
                      ELSE {ok}
    /\ UNCHANGED <<service_call, mock_config, updateVars, validateVars, passwordVars,
                   camelVars, summaryVars>>

\* RoleService.get_role_by_id(role_id, session)
GetRoleById ==
    /\ response = None
    /\ service_call # None
    /\ service_call.method = "get_role_by_id"
    /\ LET role == MockOutcome("get_by_id")
       IN  /\ mock_calls' = MockRecord(mock_calls, "get_by_id",
                                       <<service_call.role_id, service_call.session>>)
           /\ response' = IF role.raised
                          THEN IF role.value = SQLAlchemyError
                               THEN Raised(HTTPException(400))
                               ELSE Raised(role.value)
                          ELSE IF role.value = None
                          THEN Raised(HTTPException(404))
                          ELSE Returned(role.value)
    /\ UNCHANGED <<service_call, mock_config, updateVars, validateVars, passwordVars,
                   camelVars, summaryVars>>

InitRole ==
    /\ UpdateIdle
    /\ ValidateIdle
    /\ PasswordIdle
    /\ CamelIdle
    /\ SummaryIdle
    /\ service_call \in ServiceCalls
    /\ mock_config \in MockConfigs
    /\ mock_calls = <<>>
    /\ response = None

NextRole ==
    \/ CreateRole
    \/ SetUserRole
    \/ GetRoleById

SpecRole == InitRole /\ [][NextRole]_vars

(***************************************************************************)
(* tests/test_utils_comprehensive.py: hash_password and validate_password  *)
(* of app.utils, a salted hash.  The digest is injective for a given salt  *)
(* and a salt is never drawn twice.                                        *)
(***************************************************************************)
PwChars == {0, 1}
Passwords == UNION {[1..n -> PwChars] : n \in 0..MaxPwLen}
Salts == 1..NumSalts

\* a slip in the digest: only the first character of the password is used
Digest_Truncated(salt, p) ==
    [i \in 1..Len(p) |-> IF i = 1 THEN (p[i] + salt) % Cardinality(PwChars) ELSE 0]

\* the digest of a password under a salt
Digest(salt, p) == [i \in 1..Len(p) |-> (p[i] + salt) % Cardinality(PwChars)]

\* a slip in hash_password: one salt for every hash
hash_password_Unsalted(p, salt) == <<1>> \o Digest(1, p)

\* hash_password(password): the salt, then the digest
hash_password(p, salt) == <<salt>> \o Digest(salt, p)

\* validate_password(password, hashed): the password hashed again with the salt
\* of hashed gives hashed; validate_password("", "") is True
validate_password(q, hashed) ==
    IF hashed = <<>> THEN q = <<>> ELSE hashed = hash_password(q, Head(hashed))

UsedSalts == {Head(hashes[i]) : i \in DOMAIN hashes}

HashPassword ==
    /\ Len(hashes) < MaxHashes
    /\ \E salt \in Salts \ UsedSalts :
          hashes' = Append(hashes, hash_password(password, salt))
    /\ UNCHANGED <<password, attempt, checked, updateVars, validateVars, roleVars,
                   camelVars, summaryVars>>

ValidatePassword ==
    /\ \E i \in DOMAIN hashes :
          checked' = [password |-> attempt, hashed |-> hashes[i],
                      valid |-> validate_password(attempt, hashes[i])]
    /\ UNCHANGED <<password, attempt, hashes, updateVars, validateVars, roleVars,
                   camelVars, summaryVars>>

InitPassword ==
    /\ UpdateIdle
    /\ ValidateIdle
    /\ RoleIdle
    /\ password \in Passwords
    /\ attempt \in Passwords
    /\ hashes = <<>>
    /\ checked = None
    /\ CamelIdle
    /\ SummaryIdle

NextPassword ==
    \/ HashPassword
    \/ ValidatePassword

SpecPassword == InitPassword /\ [][NextPassword]_vars

(***************************************************************************)
(* tests/test_utils_comprehensive.py: to_camel_case().                     *)
(***************************************************************************)
CamelChars == {"u", "n", "N", "1", "_"}
CamelInputs == UNION {[1..n -> CamelChars] : n \in 0..MaxCamelLen}

\* str.upper() of one character
upper(c) ==
    CASE c = "u" -> "U"
      [] c = "n" -> "N"
      [] OTHER   -> c

\* s.split('_'): the pieces between the underscores, the empty ones included
RECURSIVE split(_)
split(s) ==
    IF \A i \in DOMAIN s : s[i] # "_"
    THEN <<s>>
    ELSE LET i == CHOOSE k \in DOMAIN s : s[k] = "_" /\ \A j \in 1..(k - 1) : s[j] # "_"
         IN  <<SubSeq(s, 1, i - 1)>> \o split(SubSeq(s, i + 1, Len(s)))

\* ''.join(pieces)
RECURSIVE join(_)
join(pieces) == IF pieces = <<>> THEN <<>> ELSE Head(pieces) \o join(Tail(pieces))

\* a piece with its first character in upper case; the empty piece stays empty
capitalize_first(piece) ==
    IF piece = <<>> THEN <<>> ELSE <<upper(Head(piece))>> \o Tail(piece)

\* a slip in to_camel_case: the first piece is capitalised like the others
to_camel_case_CapitalisesAll(s) ==
    LET pieces == split(s)
    IN  join([k \in DOMAIN pieces |-> capitalize_first(pieces[k])])

\* to_camel_case(s): the first piece as it is, the later ones capitalised
to_camel_case(s) ==
    LET pieces == split(s)
    IN  Head(pieces) \o join([k \in DOMAIN Tail(pieces) |-> capitalize_first(Tail(pieces)[k])])

CallToCamelCase ==
    /\ camel = None
    /\ camel' = Returned(to_camel_case(input_str))
    /\ UNCHANGED <<input_str, updateVars, validateVars, roleVars, passwordVars,
                   summaryVars>>

InitCamel ==
    /\ UpdateIdle
    /\ ValidateIdle
    /\ RoleIdle
    /\ PasswordIdle
    /\ input_str \in CamelInputs
    /\ camel = None
    /\ SummaryIdle

NextCamel == CallToCamelCase

SpecCamel == InitCamel /\ [][NextCamel]_vars

(***************************************************************************)
(* final_testing_summary.py: the scan of the project and the report.       *)
(***************************************************************************)
\* the keywords the scan looks for, as characters
str_models == <<"m", "o", "d", "e", "l", "s">>
str_repository == <<"r", "e", "p", "o", "s", "i", "t", "o", "r", "y">>
str_services == <<"s", "e", "r", "v", "i", "c", "e", "s">>
str_utils == <<"u", "t", "i", "l", "s">>
str_main_py == <<"m", "a", "i", "n", ".", "p", "y">>
str_api == <<"a", "p", "i">>
str_database == <<"d", "a", "t", "a", "b", "a", "s", "e">>
str_db == <<"d", "b">>
str_config == <<"c", "o", "n", "f", "i", "g">>
str_test == <<"t", "e", "s", "t">>

\* the relative paths of the *.py files of a project, in the order of its listing
ProjectPaths ==
    <<
      \* app/models/user.py
      <<"a", "p", "p", "/", "m", "o", "d", "e", "l", "s", "/", "u", "s", "e",
        "r", ".", "p", "y">>,
      \* app/models/role.py
      <<"a", "p", "p", "/", "m", "o", "d", "e", "l", "s", "/", "r", "o", "l",
        "e", ".", "p", "y">>,
      \* app/models/base.py
      <<"a", "p", "p", "/", "m", "o", "d", "e", "l", "s", "/", "b", "a", "s",
        "e", ".", "p", "y">>,
      \* tests/test_models.py
      <<"t", "e", "s", "t", "s", "/", "t", "e", "s", "t", "_", "m", "o", "d",
        "e", "l", "s", ".", "p", "y">>,
      \* app/repository/user.py
      <<"a", "p", "p", "/", "r", "e", "p", "o", "s", "i", "t", "o", "r", "y",
        "/", "u", "s", "e", "r", ".", "p", "y">>,
      \* app/services/role.py
      <<"a", "p", "p", "/", "s", "e", "r", "v", "i", "c", "e", "s", "/", "r",
        "o", "l", "e", ".", "p", "y">>,
      \* app/utils.py
      <<"a", "p", "p", "/", "u", "t", "i", "l", "s", ".", "p", "y">>,
      \* main.py
      <<"m", "a", "i", "n", ".", "p", "y">>,
      \* app/db.py
      <<"a", "p", "p", "/", "d", "b", ".", "p", "y">>,
      \* app/config.py
      <<"a", "p", "p", "/", "c", "o", "n", "f", "i", "g", ".", "p", "y">>,
      \* tests/conftest.py
      <<"t", "e", "s", "t", "s", "/", "c", "o", "n", "f", "t", "e", "s", "t",
        ".", "p", "y">>,
      \* setup.py
      <<"s", "e", "t", "u", "p", ".", "p", "y">>
    >>

\* s[::-1]
Reverse(s) == [i \in DOMAIN s |-> s[Len(s) + 1 - i]]

\* the scans: rglob yields the files in the order the file system lists them;
\* up to MaxFiles of the paths are there, found in the order of the listing or
\* in the reverse order
Scans ==
    LET Found(S) == SelectSeq(ProjectPaths, LAMBDA q : \E i \in S : ProjectPaths[i] = q)
        Selections == {S \in SUBSET DOMAIN ProjectPaths : Cardinality(S) <= MaxFiles}
    IN  {Found(S) : S \in Selections} \cup {Reverse(Found(S)) : S \in Selections}

\* k in s, of two strings
contains(k, s) == \E i \in 0..(Len(s) - Len(k)) : \A j \in DOMAIN k : s[i + j] = k[j]

\* the keys of components, and of testing_strategy, in the order of the dictionaries
component_names ==
    <<"models", "repositories", "services", "utils", "api", "database", "config", "tests">>
strategy_names == <<"models", "repositories", "services", "utils", "api", "database">>

\* a slip in the scan: if where elif is meant, a file goes to every list it matches
Branch_WithoutElif(p) ==
    {c \in {"models"} : contains(str_models, p)}
    \cup {c \in {"repositories"} : contains(str_repository, p)}
    \cup {c \in {"services"} : contains(str_services, p)}
    \cup {c \in {"utils"} : contains(str_utils, p)}
    \cup {c \in {"api"} : contains(str_main_py, p) \/ contains(str_api, p)}
    \cup {c \in {"database"} : contains(str_database, p) \/ contains(str_db, p)}
    \cup {c \in {"config"} : contains(str_config, p)}
    \cup {c \in {"tests"} : contains(str_test, p)}

\* the if/elif chain of the scan: the lists the file is appended to
Branch(p) ==
    IF contains(str_models, p) THEN {"models"}
    ELSE IF contains(str_repository, p) THEN {"repositories"}
    ELSE IF contains(str_services, p) THEN {"services"}
    ELSE IF contains(str_utils, p) THEN {"utils"}
    ELSE IF contains(str_main_py, p) \/ contains(str_api, p) THEN {"api"}
    ELSE IF contains(str_database, p) \/ contains(str_db, p) THEN {"database"}
    ELSE IF contains(str_config, p) THEN {"config"}
    ELSE IF contains(str_test, p) THEN {"tests"}
    ELSE {}

\* for file_path in project_root.rglob("*.py"): ...
RECURSIVE scan(_, _)
scan(files, lists) ==
    IF files = <<>> THEN lists
    ELSE scan(Tail(files),
              [c \in DOMAIN lists |->
                  IF c \in Branch(Head(files)) THEN Append(lists[c], Head(files))
                  ELSE lists[c]])

analyze_project_structure(files) ==
    scan(files, [c \in {component_names[k] : k \in DOMAIN component_names} |-> <<>>])

\* a slip in testing_strategy: every component is given priority HIGH
testing_priority_AllHigh ==
    [models |-> "HIGH", repositories |-> "HIGH", services |-> "HIGH",
     utils |-> "HIGH", api |-> "HIGH", database |-> "HIGH"]

\* testing_strategy: the "priority" of each component
testing_priority ==
    [models |-> "HIGH", repositories |-> "HIGH", services |-> "HIGH",
     utils |-> "MEDIUM", api |-> "HIGH", database |-> "MEDIUM"]

\* generate_testing_strategy(): the scan is made anew
generate_testing_strategy(files) ==
    LET found == analyze_project_structure(files)
    IN  [c \in {strategy_names[k] : k \in DOMAIN strategy_names} |->
            [priority |-> testing_priority[c], files |-> found[c]]]

\* sum(len(component["files"]) for component in strategy.values() if ...)
RECURSIVE SumFiles(_, _, _)
SumFiles(strat, names, priorities) ==
    IF names = <<>> THEN 0
    ELSE (IF strat[Head(names)].priority \in priorities
          THEN Len(strat[Head(names)].files) ELSE 0)
         + SumFiles(strat, Tail(names), priorities)

\* calculate_testing_metrics(): the strategy is generated anew
calculate_testing_metrics(files) ==
    LET strat == generate_testing_strategy(files)
    IN  [total_files |-> SumFiles(strat, strategy_names, {"HIGH", "MEDIUM"}),
         high_priority_files |-> SumFiles(strat, strategy_names, {"HIGH"})]

\* the lines of the report
Line(kind, component, file, count) ==
    [kind |-> kind, component |-> component, file |-> file, count |-> count]

\* files[:3]
FirstThree(files) == SubSeq(files, 1, IF Len(files) < 3 THEN Len(files) ELSE 3)

\* a slip in the report: >= 3 where > 3 is meant
MoreLine_AtThree(c, files) ==
    IF Len(files) >= 3 THEN <<Line("more", c, <<>>, Len(files) - 3)>> ELSE <<>>

\* if len(files) > 3: print(... and len(files) - 3 more files)
MoreLine(c, files) ==
    IF Len(files) > 3 THEN <<Line("more", c, <<>>, Len(files) - 3)>> ELSE <<>>

\* section 1: for component, files in components.items(): if files: ...
RECURSIVE StructureLines(_, _)
StructureLines(lists, names) ==
    IF names = <<>> THEN <<>>
    ELSE LET c == Head(names)
             files == lists[c]
         IN  (IF files # <<>>
              THEN <<Line("header", c, <<>>, Len(files))>>
                   \o [j \in DOMAIN FirstThree(files) |->
                          Line("file", c, FirstThree(files)[j], 0)]
                   \o MoreLine(c, files)
              ELSE <<>>)
             \o StructureLines(lists, Tail(names))

\* section 2: for component, details in strategy.items(): if details["files"]: ...
RECURSIVE StrategyLines(_, _)
StrategyLines(strat, names) ==
    IF names = <<>> THEN <<>>
    ELSE (IF strat[Head(names)].files # <<>>
          THEN <<Line("strategy", Head(names), <<>>, Len(strat[Head(names)].files))>>
          ELSE <<>>)
         \o StrategyLines(strat, Tail(names))

\* print_comprehensive_report(), section 1
PrintStructure ==
    /\ section = 0
    /\ components' = analyze_project_structure(project_files)
    /\ report' = report \o StructureLines(components', component_names)
    /\ section' = 1
    /\ UNCHANGED <<project_files, strategy, metrics,
                   updateVars, validateVars, roleVars, passwordVars, camelVars>>

\* print_comprehensive_report(), section 2
PrintStrategy ==
    /\ section = 1
    /\ strategy' = generate_testing_strategy(project_files)
    /\ report' = report \o StrategyLines(strategy', strategy_names)
    /\ section' = 2
    /\ UNCHANGED <<project_files, components, metrics,
                   updateVars, validateVars, roleVars, passwordVars, camelVars>>

\* print_comprehensive_report(), section 3
PrintMetrics ==
    /\ section = 2
    /\ metrics' = calculate_testing_metrics(project_files)
    /\ report' = report \o <<Line("total", "", <<>>, metrics'.total_files),
                             Line("high", "", <<>>, metrics'.high_priority_files)>>
    /\ section' = 3
    /\ UNCHANGED <<project_files, components, strategy,
                   updateVars, validateVars, roleVars, passwordVars, camelVars>>

InitSummary ==
    /\ UpdateIdle
    /\ ValidateIdle
    /\ RoleIdle
    /\ PasswordIdle
    /\ CamelIdle
    /\ project_files \in Scans
    /\ components = None
    /\ strategy = None
    /\ metrics = None
    /\ report = <<>>
    /\ section = 0

NextSummary ==
    \/ PrintStructure
    \/ PrintStrategy
    \/ PrintMetrics

SpecSummary == InitSummary /\ [][NextSummary]_vars

(***************************************************************************)
(* The claims.                                                             *)
(***************************************************************************)
Occurs(n) == {i \in DOMAIN path : path[i] = n}
Has(seq, e) == \E i \in DOMAIN seq : seq[i] = e

\* C1: the flow graph has 14 nodes and 15 edges; the nodes with more than one
\* outgoing edge are exactly 2, 5, 7 and 9, the four nodes coloured as
\* predicates, and the cyclomatic complexity is predicate nodes + 1 = 5, the
\* complexity the summary reports; update() has a choice of next node exactly
\* at those nodes.
C1_PredicateNodes ==
    /\ Cardinality(nodes) = 14
    /\ Len(edges) = 15
    /\ BranchingNodes = {2, 5, 7, 9}
    /\ predicate_nodes = BranchingNodes
    /\ Cardinality(predicate_nodes) = 4
    /\ CyclomaticByPredicates = 5
    /\ summary_complexity = CyclomaticByPredicates
    /\ (pc \in nodes => (Cardinality(Successors(pc)) > 1 <=> pc \in {2, 5, 7, 9}))

\* update() stands at a predicate node, with two nodes to go to
C1_Witness == pc = 9 /\ Successors(pc) = {10, 11} /\ Occurs(10) # {}

\* C2: like the path update() has executed, each of the 5 basis paths listed in
\* complexity_text is a walk along edges of the flow graph, and it goes from
\* node 1 to a terminal node (3, 8 or 14).
C2_BasisPathsAreWalks ==
    /\ IsWalk(path)
    /\ Len(basis_paths) = 5
    /\ \A k \in DOMAIN basis_paths :
          /\ IsWalk(basis_paths[k])
          /\ basis_paths[k][1] = 1
          /\ basis_paths[k][Len(basis_paths[k])] \in {3, 8, 14}

\* C3: for the graph update() runs on, M = E - N + 2P on the edge and node lists
\* with P = 1, predicate nodes + 1 and the region count agree, and each is 5.
C3_MethodsAgree ==
    /\ pc \in nodes \cup {0}
    /\ P = 1
    /\ CyclomaticByFormula = 5
    /\ CyclomaticByPredicates = 5
    /\ values[1] = CyclomaticByFormula
    /\ values[2] = CyclomaticByPredicates
    /\ values[3] = 5

\* C4: when get_by_id returns no user, update() goes 1, 2, 3 and ends with the
\* 404 error; no field is assigned, updated_at is not set, and neither
\* session.commit nor session.refresh is called.
C4_UserNotFound ==
    get_by_id_result = None =>
        /\ pc \in {0, 1, 2, 3}
        /\ (pc # 3 => ENABLED Next)
        /\ (pc = 3 <=> outcome = "404")
        /\ outcome \in {"running", "404"}
        /\ user = None
        /\ Occurs(10) = {} /\ Occurs(11) = {}
        /\ commits = 0 /\ refreshes = 0

C4_Witness == get_by_id_result = None /\ outcome = "404" /\ path = <<1, 2, 3>>

\* C5: once get_by_email has returned a user whose id differs from the id being
\* updated (the update data then contains an email), update() goes on to the
\* 400 error and nowhere else; the user is as get_by_id returned it and neither
\* session.commit nor session.refresh is called.
C5_EmailTaken ==
    (get_by_email_calls > 0 /\ existing_user # None /\ existing_user.id # id) =>
        /\ "email" \in DOMAIN update_data
        /\ pc \in {6, 7, 8}
        /\ (pc = 6 => ENABLED IfEmailTaken)
        /\ (pc = 7 => ENABLED RaiseEmailTaken /\ ~ENABLED ForItems)
        /\ (pc = 8 <=> outcome = "400")
        /\ outcome \in {"running", "400"}
        /\ user = get_by_id_result
        /\ Occurs(10) = {} /\ Occurs(11) = {}
        /\ commits = 0 /\ refreshes = 0

C5_Witness ==
    /\ outcome = "400"
    /\ "email" \in DOMAIN update_data
    /\ existing_user # None /\ existing_user.id # id
    /\ Cardinality(DOMAIN update_data) > 1

\* C6: when the user exists and the update data contains an email, update()
\* runs to an end, and it ends by returning the user if and only if
\* get_by_email returned nothing or a user with the id being updated; the
\* returned user then holds the new value of every field of the update data.
C6_EmailUpdateSucceedsIff ==
    (get_by_id_result # None /\ "email" \in DOMAIN user_update) =>
        /\ (pc \notin TerminalNodes => ENABLED Next)
        /\ (pc \in TerminalNodes =>
               /\ outcome \in {"returned", "400"}
               /\ (outcome = "returned" <=>
                      (get_by_email_result = None \/ get_by_email_result.id = id))
               /\ (outcome = "returned" =>
                      \A f \in DOMAIN user_update : user[f] = user_update[f]))

C6_Witness ==
    /\ outcome = "returned"
    /\ "email" \in DOMAIN user_update
    /\ get_by_email_result # None
    /\ user.email = 1
    /\ Cardinality(DOMAIN user_update) >= 2

\* C7: when the update data contains no email, get_by_email is never called,
\* the user's email stays what it was, and of the user's attributes only the
\* fields of the update data and updated_at may change.
C7_NoEmail ==
    "email" \notin DOMAIN user_update =>
        /\ get_by_email_calls = 0
        /\ existing_user = None
        /\ Occurs(6) = {}
        /\ (user # None =>
               /\ user.email = get_by_id_result.email
               /\ user.id = get_by_id_result.id
               /\ \A f \in Fields \ DOMAIN user_update : user[f] = get_by_id_result[f])

C7_Witness ==
    /\ outcome = "returned"
    /\ "email" \notin DOMAIN user_update
    /\ user.user_name = 1
    /\ user.updated_at = 1
    /\ user.email = 0

\* C8: commit and refresh are called only at their nodes; when update() has
\* returned, every field assignment came before the setting of updated_at, that
\* before session.commit, that before session.refresh, that before the return,
\* there was one assignment per field of the update data, and commit and
\* refresh were each called exactly once.
C8_OrderOnSuccess ==
    /\ commits = Cardinality(Occurs(12))
    /\ refreshes = Cardinality(Occurs(13))
    /\ (outcome = "returned" =>
           /\ \A n \in {11, 12, 13, 14} : Cardinality(Occurs(n)) = 1
           /\ \A i \in Occurs(10), j \in Occurs(11) : i < j
           /\ \A i \in Occurs(11), j \in Occurs(12) : i < j
           /\ \A i \in Occurs(12), j \in Occurs(13) : i < j
           /\ \A i \in Occurs(13), j \in Occurs(14) : i < j
           /\ path[Len(path)] = 14
           /\ Cardinality(Occurs(10)) = Cardinality(DOMAIN update_data)
           /\ commits = 1 /\ refreshes = 1
           /\ user.updated_at = 1)

C8_Witness ==
    /\ outcome = "returned"
    /\ Cardinality(Occurs(10)) = 3
    /\ commits = 1 /\ refreshes = 1

\* what C9 says of a username, in its own words
C9_Blank(u) == \A i \in DOMAIN u : u[i] = " "
C9_Accepted(u) ==
    /\ ~C9_Blank(u)
    /\ 2 <= Len(u) /\ Len(u) <= 30
    /\ \A i \in DOMAIN u : u[i] \in Letters \/ u[i] \in Digits
    /\ ~(\A i \in DOMAIN u : u[i] \in Digits)

\* C9: validate_username(u) is valid exactly when u is not empty or
\* whitespace-only, has 2 to 30 characters, all of them letters or digits, and
\* not all of them digits; and valid is true exactly when errors is empty.
C9_ValidExactlyWhen ==
    result # None =>
        /\ (result.valid <=> C9_Accepted(username))
        /\ (result.valid <=> result.errors = <<>>)

C9_Witness ==
    /\ result # None
    /\ result.valid
    /\ Has(username, "1") /\ Has(username, "a")
    /\ Len(username) > 2

\* C10 as stated: a letters-only username of length 2 or 30 is accepted, a
\* username of length 1 is rejected with the 'minimum 2 characters' error and a
\* username of length 31 with the 'must not exceed 30 characters' error.
C10_LengthBoundsAsStated ==
    result # None =>
        /\ ((Len(username) \in {2, 30} /\ \A i \in DOMAIN username : username[i] \in Letters)
               => result.valid)
        /\ (Len(username) = 1 => ~result.valid /\ Has(result.errors, ErrShort))
        /\ (Len(username) = 31 => ~result.valid /\ Has(result.errors, ErrLong))

\* C10, amended: the same, of usernames of length 1 and 31 that are not
\* whitespace-only (a whitespace-only one gets the 'cannot be empty' error alone).
C10_LengthBounds ==
    result # None =>
        /\ ((Len(username) \in {2, 30} /\ \A i \in DOMAIN username : username[i] \in Letters)
               => result.valid)
        /\ ((Len(username) = 1 /\ ~C9_Blank(username))
               => ~result.valid /\ Has(result.errors, ErrShort))
        /\ ((Len(username) = 31 /\ ~C9_Blank(username))
               => ~result.valid /\ Has(result.errors, ErrLong))
        /\ ((Len(username) \in {1, 31} /\ C9_Blank(username))
               => result.errors = <<ErrEmpty>>)

C10_Witness ==
    /\ result # None
    /\ Len(username) = 31
    /\ \A i \in DOMAIN username : username[i] \in Letters
    /\ result.errors = <<ErrLong>>

\* C11: for an empty or whitespace-only username validate_username returns at
\* the empty check: valid is False and errors holds the 'cannot be empty' error
\* and nothing else.
C11_EmptyReturnsAtOnce ==
    (result # None /\ C9_Blank(username)) =>
        /\ result.valid = FALSE
        /\ result.errors # <<>>
        /\ result.errors[1] = ErrEmpty
        /\ Len(result.errors) = 1
        /\ ~Has(result.errors, ErrShort) /\ ~Has(result.errors, ErrLong)
        /\ ~Has(result.errors, ErrDigits) /\ ~Has(result.errors, ErrAlnum)

C11_Witness ==
    /\ result # None
    /\ Len(username) = 2 /\ C9_Blank(username)
    /\ result.errors = <<ErrEmpty>>

\* C12: a non-empty username made of digits only, whatever its length (a single
\* digit too), is rejected and its errors include 'cannot consist only of digits'.
C12_DigitsOnlyRejected ==
    (result # None /\ username # <<>> /\ \A i \in DOMAIN username : username[i] \in Digits) =>
        /\ result.valid = FALSE
        /\ Has(result.errors, ErrDigits)

C12_Witness ==
    /\ result # None
    /\ username = <<"1">>
    /\ result.errors = <<ErrShort, ErrDigits>>

\* C13: a username that is not blank and holds a character that is neither a
\* letter nor a digit is rejected and its errors include 'only letters and digits'.
C13_SpecialCharsRejected ==
    (/\ result # None
     /\ ~C9_Blank(username)
     /\ \E i \in DOMAIN username : username[i] \notin Letters \cup Digits) =>
        /\ result.valid = FALSE
        /\ Has(result.errors, ErrAlnum)

C13_Witness ==
    /\ result # None
    /\ username = <<"a", " ", "a">>
    /\ result.errors = <<ErrAlnum>>

\* C14: the username 'a', a single letter, passes username validation.
C14_SingleLetterAccepted ==
    (result # None /\ username = <<"a">>) => result.valid

\* the calls of a repository method that the mock has recorded
CallsOf(method) == {i \in DOMAIN mock_calls : mock_calls[i].method = method}

Traversed(a, b) ==
    \E k \in DOMAIN basis_paths :
        \E j \in 1..(Len(basis_paths[k]) - 1) :
            basis_paths[k][j] = a /\ basis_paths[k][j + 1] = b

\* C22: the 5 basis paths are pairwise distinct and together traverse every one
\* of the 15 edges of the graph, the loop edges 9->10 and 10->9 included, so
\* that every edge an execution of update() takes is on a basis path.
C22_BasisPathsCoverEdges ==
    /\ Len(basis_paths) = 5 /\ Len(edges) = 15
    /\ \A k, l \in DOMAIN basis_paths : k # l => basis_paths[k] # basis_paths[l]
    /\ \A i \in DOMAIN edges : Traversed(edges[i][1], edges[i][2])
    /\ Traversed(9, 10) /\ Traversed(10, 9)
    /\ \A j \in 1..(Len(path) - 1) : Traversed(path[j], path[j + 1])

\* C23: each of the five path tests drives update() along exactly the node
\* sequence its docstring names.
C23_TestsFollowDocstrings ==
    \A k \in DOMAIN docstring_paths :
        (path_tests[k] /\ outcome # "running") => path = docstring_paths[k]

OutEdges(n) == {i \in DOMAIN edges : edges[i][1] = n}
\* the nodes that can be reached from the nodes of S along edges
RECURSIVE ReachableFrom(_)
ReachableFrom(S) ==
    LET T == S \cup {edges[i][2] : i \in {j \in DOMAIN edges : edges[j][1] \in S}}
    IN  IF T = S THEN S ELSE ReachableFrom(T)

\* C26: every node of the graph is reachable from node 1; the nodes without
\* outgoing edges are exactly 3, 8 and 14, the exception nodes and the return
\* node; each of the predicate nodes 2, 5, 7, 9 has exactly two outgoing edges
\* and every other non-terminal node exactly one.
C26_GraphShape ==
    /\ LET R == ReachableFrom({1})
       IN  R = nodes /\ pc \in R \cup {0}
    /\ {n \in nodes : OutEdges(n) = {}} = {3, 8, 14}
    /\ exception_nodes \cup {14} = {3, 8, 14}
    /\ predicate_nodes = {2, 5, 7, 9}
    /\ \A n \in predicate_nodes : Cardinality(OutEdges(n)) = 2
    /\ \A n \in nodes \ (predicate_nodes \cup {3, 8, 14}) : Cardinality(OutEdges(n)) = 1

C26_Witness ==
    /\ pc = 9
    /\ Occurs(5) # {} /\ Occurs(6) = {}
    /\ Occurs(10) # {}
    /\ Cardinality(OutEdges(pc)) = 2

\* C29: for a non-blank username validate_username reports every error that
\* applies: the 'too short' and 'too long' errors never occur together, there
\* are at most 3 errors, and '1' yields exactly the length and digits-only errors.
C29_ErrorsAccumulate ==
    (result # None /\ ~C9_Blank(username)) =>
        /\ (Has(result.errors, ErrShort) <=> Len(username) < 2)
        /\ (Has(result.errors, ErrLong) <=> Len(username) > 30)
        /\ (Has(result.errors, ErrDigits) <=> \A i \in DOMAIN username : username[i] \in Digits)
        /\ (Has(result.errors, ErrAlnum)
               <=> \E i \in DOMAIN username : username[i] \notin Letters \cup Digits)
        /\ ~(Has(result.errors, ErrShort) /\ Has(result.errors, ErrLong))
        /\ Len(result.errors) <= 3
        /\ (username = <<"1">> => result.errors = <<ErrShort, ErrDigits>>)

C29_Witness ==
    /\ result # None
    /\ username = <<"1">>
    /\ Len(result.errors) = 2

\* s without its underscores, each character that follows an underscore in
\* upper case
RECURSIVE C21_ByChar(_, _)
C21_ByChar(s, i) ==
    IF i > Len(s) THEN <<>>
    ELSE (IF s[i] = "_" THEN <<>>
          ELSE IF i > 1 /\ s[i - 1] = "_" THEN <<upper(s[i])>>
          ELSE <<s[i]>>) \o C21_ByChar(s, i + 1)

\* C21: to_camel_case(s) is s split on '_' with the first piece unchanged and
\* the first character of every later piece in upper case: a string without '_'
\* is returned unchanged, the result has no '_', empty pieces vanish
\* ('user__name' -> 'userName', 'user_' -> 'user', '_' -> '') and a leading '_'
\* capitalises the first word ('_user' -> 'User').
C21_CamelCase ==
    camel # None =>
        /\ camel.value = C21_ByChar(input_str, 1)
        /\ (~Has(input_str, "_") => camel.value = input_str)
        /\ ~Has(camel.value, "_")
        /\ (input_str = <<"u", "_", "_", "n">> => camel.value = <<"u", "N">>)
        /\ (input_str = <<"u", "_">> => camel.value = <<"u">>)
        /\ (input_str = <<"_">> => camel.value = <<>>)
        /\ (input_str = <<"_", "u">> => camel.value = <<"U">>)
        /\ (input_str = <<"u", "_", "1">> => camel.value = <<"u", "1">>)

C21_Witness ==
    /\ camel # None
    /\ input_str = <<"u", "_", "_", "n">>
    /\ camel.value = <<"u", "N">>

\* the component lists in the order of C27, each with the substrings it is
\* chosen by
C27_Order ==
    << <<"models", {str_models}>>,
       <<"repositories", {str_repository}>>,
       <<"services", {str_services}>>,
       <<"utils", {str_utils}>>,
       <<"api", {str_main_py, str_api}>>,
       <<"database", {str_database, str_db}>>,
       <<"config", {str_config}>>,
       <<"tests", {str_test}>> >>
C27_Matches(f, k) == \E w \in C27_Order[k][2] : contains(w, f)
\* the places of file f in the component lists
C27_Places(f) ==
    {<<c, j>> \in (DOMAIN components) \X (1..Len(project_files)) :
        j <= Len(components[c]) /\ components[c][j] = f}

\* C27: analyze_project_structure puts every scanned file into at most one
\* component list, the one of the first substring of the fixed order its path
\* contains; a file is under 'tests' only if its path contains 'test' and none
\* of the earlier keywords, and a file that matches no keyword is in no list.
C27_FirstMatchOnly ==
    components # None =>
        /\ DOMAIN components = {C27_Order[k][1] : k \in DOMAIN C27_Order}
        /\ \A i \in DOMAIN project_files :
              LET f == project_files[i]
              IN  /\ Cardinality(C27_Places(f)) <= 1
                  /\ \A k \in DOMAIN C27_Order :
                        Has(components[C27_Order[k][1]], f)
                            <=> (/\ C27_Matches(f, k)
                                 /\ \A l \in 1..(k - 1) : ~C27_Matches(f, l))
                  /\ (Has(components.tests, f)
                         => contains(str_test, f) /\ ~contains(str_models, f))
                  /\ ((\A k \in DOMAIN C27_Order : ~C27_Matches(f, k))
                         => C27_Places(f) = {})
        /\ \A c \in DOMAIN components :
              \A j \in DOMAIN components[c] : Has(project_files, components[c][j])

C27_Witness ==
    /\ components # None
    /\ Has(project_files, ProjectPaths[4]) /\ Has(components.models, ProjectPaths[4])
    /\ Has(project_files, ProjectPaths[11]) /\ Has(components.tests, ProjectPaths[11])
    /\ Has(project_files, ProjectPaths[12])
    /\ Len(project_files) = 5

\* C28: total_files is the number of files in models, repositories, services,
\* utils, api and database, with no file of config or tests counted, and
\* high_priority_files the number of files in models, repositories, services
\* and api; so high_priority_files <= total_files, and the difference is the
\* number of utils and database files.
C28_Metrics ==
    metrics # None =>
        /\ metrics.total_files =
              Len(components.models) + Len(components.repositories)
              + Len(components.services) + Len(components.utils)
              + Len(components.api) + Len(components.database)
        /\ metrics.total_files =
              Len(project_files)
              - Cardinality({i \in DOMAIN project_files :
                    Has(components.config, project_files[i])
                    \/ Has(components.tests, project_files[i])
                    \/ \A c \in DOMAIN components : ~Has(components[c], project_files[i])})
        /\ metrics.high_priority_files =
              Len(components.models) + Len(components.repositories)
              + Len(components.services) + Len(components.api)
        /\ metrics.high_priority_files <= metrics.total_files
        /\ metrics.total_files - metrics.high_priority_files =
              Len(components.utils) + Len(components.database)

C28_Witness ==
    /\ metrics # None
    /\ components.config # <<>> /\ components.tests # <<>>
    /\ components.utils # <<>> /\ components.database # <<>>
    /\ metrics.total_files = 3
    /\ metrics.high_priority_files = 1

\* the lines of kind k the report has for component c
C30_Lines(k, c) == {i \in DOMAIN report : report[i].kind = k /\ report[i].component = c}

\* C30: a component with no files has no line in the structure section and none
\* in the strategy section; for a component with n > 0 files the first
\* min(n, 3) files are listed in scan order, and the 'more files' line is
\* printed exactly when n > 3, with k = n - 3.
C30_ReportLists ==
    components # None =>
        \A c \in DOMAIN components :
            LET files == components[c]
                n == Len(files)
                m == IF n < 3 THEN n ELSE 3
            IN  /\ files = SelectSeq(project_files, LAMBDA f : Has(files, f))
                /\ (n = 0 =>
                      /\ \A i \in DOMAIN report : report[i].component # c)
                /\ (n > 0 =>
                      /\ Cardinality(C30_Lines("header", c)) = 1
                      /\ Cardinality(C30_Lines("file", c)) = m
                      /\ LET h == CHOOSE i \in C30_Lines("header", c) : TRUE
                         IN  /\ report[h].count = n
                             /\ \A j \in 1..m :
                                   /\ report[h + j].kind = "file"
                                   /\ report[h + j].file = files[j]
                             /\ (n > 3 =>
                                   /\ report[h + m + 1].kind = "more"
                                   /\ report[h + m + 1].count = n - 3)
                      /\ (C30_Lines("more", c) # {} <=> n > 3)
                      /\ Cardinality(C30_Lines("more", c)) <= 1
                      /\ ((strategy # None /\ Has(strategy_names, c)) =>
                            /\ Cardinality(C30_Lines("strategy", c)) = 1
                            /\ \A i \in C30_Lines("strategy", c) : report[i].count = n))

C30_Witness ==
    /\ strategy # None
    /\ Len(components.models) = 4
    /\ components.tests = <<>>
    /\ \E i \in DOMAIN report :
          /\ report[i].kind = "more" /\ report[i].component = "models"
          /\ report[i].count = 1
          /\ report[i - 1].file = components.models[3]
====
